---- MODULE Spec2Model ----
(***************************************************************************)
(* A state-machine model of the lit-data-grid layout/reorder core:         *)
(*   src/src/data-grid.ts          the grid (columns, rows, widths,        *)
(*                                 reorder coordinators)                   *)
(*   src/src/data-grid-column.ts   the column header element (resize)      *)
(*                                                                         *)
(* Numbers.  Widths are JavaScript numbers; the model keeps them as exact  *)
(* non-negative rationals <<n, d>> in lowest terms (d > 0), so 100/3 - 1   *)
(* is <<97, 3>> and floating rounding is left out.  A pair with d = 0 is   *)
(* not a number: <<0, 0>> is `undefined`, <<1, 0>> is an array hole.       *)
(*                                                                         *)
(* Scheduling.  The program is single threaded.  A property write marks    *)
(* the grid dirty (isUpdatePending); the refresh (GridUpdate) runs later   *)
(* as a microtask.  Application code may run between a write and the       *)
(* refresh, and between the refresh and the resumption of a handler that   *)
(* awaits it; pointer and drag events are tasks of the event loop and run  *)
(* only when no refresh is pending and no handler is suspended (Stable).   *)
(***************************************************************************)
EXTENDS Integers, Sequences, FiniteSets, TLC

\* ------------------------------------------------------------------ bounds
\* longest array the application assigns to `columns`
MaxCols == 3
\* longest array the application assigns to `rows`
MaxRows == 2
\* resize sessions that can be open at once (pointerdown without pointerup)
MaxSessions == 2
\* live coordinators on one axis from which on the application no longer
\* sets reorderable to true (each such write can leave one more alive)
MaxSortables == 2

\* the longest sequence a drop is applied to when the drop itself is checked
MoveLen == MaxCols + 1

\* ------------------------------------------------------- values and inputs
Undefined == <<0, 0>>
Hole == <<1, 0>>

IsNumber(w) == w[2] # 0

RECURSIVE GCD(_, _)
GCD(a, b) == IF b = 0 THEN a ELSE GCD(b, a % b)

\* the number n/d (n >= 0, d > 0) in lowest terms
Rat(n, d) == LET g == GCD(n, d) IN <<n \div g, d \div g>>

\* a <= b for two numbers
Leq(a, b) == a[1] * b[2] <= b[1] * a[2]

Max(a, b) == IF a >= b THEN a ELSE b
Min(a, b) == IF a <= b THEN a ELSE b

\* The column definitions the application can put into `columns`, by
\* reference: 1 and 4 set no bound, 2 sets minWidth = 200 (px), 3 sets
\* maxWidth = 120 (px).  0 stands for no value (unset).
ColumnDefs ==
    << [minWidth |-> 0,   maxWidth |-> 0],
       [minWidth |-> 200, maxWidth |-> 0],
       [minWidth |-> 0,   maxWidth |-> 120],
       [minWidth |-> 0,   maxWidth |-> 0] >>

\* the entry `undefined` that a splice can insert into a backing sequence
UndefinedItem == 0

\* c?.minWidth, c?.maxWidth
MinWidthOf(c) == IF c = UndefinedItem THEN 0 ELSE ColumnDefs[c].minWidth
MaxWidthOf(c) == IF c = UndefinedItem THEN 0 ELSE ColumnDefs[c].maxWidth

Range(s) == { s[i] : i \in 1 .. Len(s) }

\* the arrays the application assigns to `columns` and to `rows`
ColumnInputs == { <<>>, <<1>>, <<1, 2>>, <<1, 3, 4>>, <<2, 1, 3, 4>> }
ColumnArrays == { a \in ColumnInputs : Len(a) <= MaxCols }
RowArrays == { [i \in 1 .. n |-> i] : n \in 0 .. MaxRows }
\* the arrays assigned while gestures are in progress
ShortColumnArrays == { a \in ColumnInputs : Len(a) < MaxCols }
\* the arrays a single drop is checked on: every order of them is reached
\* by drops
MoveColumnArrays == { [i \in 1 .. n |-> i] : n \in 1 .. Min(MoveLen, Len(ColumnDefs)) }
MoveRowArrays == { [i \in 1 .. n |-> i] : n \in 1 .. MaxRows + 1 }

\* getBoundingClientRect().width of the grid, in px (0: a grid not laid out)
GridWidths == { 0, 1000 }
\* offsetWidth of a column header at pointerdown, in px
OffsetWidths == { 200 }
\* clientX of a pointerdown on a resize handle and of a pointermove, in px
PointerDownXs == { 100 }
PointerMoveXs == { 0, 150 }

\* ------------------------------------------------------------ pure helpers
\* utils/shared.ts pixelsToPercentOfWidth: (px / width) * 100, and 0 for a
\* zero-width grid
pixelsToPercentOfWidth(px, width) ==
    IF width = 0 THEN <<0, 1>> ELSE Rat(px * 100, width)

\* 100 / n - 1
DefaultShare(n) == Rat(100 - n, n)

\* the fallback of `this.minWidth || 60`
FallbackMinWidth == 60

\* a JavaScript value used as a condition: undefined, a hole read and 0 are
\* falsy
Truthy(w) == IsNumber(w) /\ w[1] # 0

\* arr[i] for a zero-based i: undefined outside the array and at a hole
ArrayGet(arr, i) ==
    IF i >= 0 /\ i < Len(arr) /\ IsNumber(arr[i + 1]) THEN arr[i + 1] ELSE Undefined

\* [...arr]: a dense copy, its holes read as undefined
ArraySpread(arr) ==
    [i \in 1 .. Len(arr) |-> IF IsNumber(arr[i]) THEN arr[i] ELSE Undefined]

\* arr[i] = w for a zero-based i >= 0: past the end the array grows and the
\* slots in between are holes
ArraySet(arr, i, w) ==
    [k \in 1 .. Max(Len(arr), i + 1) |->
        IF k = i + 1 THEN w ELSE IF k <= Len(arr) THEN arr[k] ELSE Hole]

\* initializeCellWidths: the new gridTemplateColumns for `cols`, given the
\* prior array and the grid's rendered width
\* A recompute that gave a column without minWidth the whole even share.
InitialWidthsEvenShare(cols, prior, width) ==
    [i \in 1 .. Len(cols) |->
        LET existingWidth == IF Len(prior) > 1 THEN ArrayGet(prior, i - 1)
                             ELSE Undefined
        IN IF Truthy(existingWidth) THEN existingWidth
           ELSE IF MinWidthOf(cols[i]) # 0
                THEN pixelsToPercentOfWidth(MinWidthOf(cols[i]), width)
                ELSE Rat(100, Len(cols))]

InitialWidths(cols, prior, width) ==
    [i \in 1 .. Len(cols) |->
        LET existingWidth == IF Len(prior) > 1 THEN ArrayGet(prior, i - 1)
                             ELSE Undefined
        IN IF Truthy(existingWidth) THEN existingWidth
           ELSE IF MinWidthOf(cols[i]) # 0
                THEN pixelsToPercentOfWidth(MinWidthOf(cols[i]), width)
                ELSE DefaultShare(Len(cols))]

\* gridTemplateColumns.map(v => `${v}%`).join(' '): one token per slot; map
\* skips a hole and join writes it as an empty token
StyleTokens(arr) ==
    [i \in 1 .. Len(arr) |->
        IF arr[i] = Hole THEN [kind |-> "empty", value |-> Undefined]
        ELSE IF arr[i] = Undefined THEN [kind |-> "undefined%", value |-> Undefined]
        ELSE [kind |-> "percent", value |-> arr[i]]]

\* Array.prototype.splice: the start index it uses for `start` on an array
\* of length len (negative counts from the end, too large clamps)
SpliceStart(start, len) ==
    IF start < 0 THEN Max(len + start, 0) ELSE Min(start, len)

RemoveAt(s, p) == [k \in 1 .. Len(s) - 1 |-> IF k < p THEN s[k] ELSE s[k + 1]]
InsertAt(s, p, x) ==
    [k \in 1 .. Len(s) + 1 |-> IF k < p THEN s[k] ELSE IF k = p THEN x ELSE s[k - 1]]

\* A drop that exchanged the two positions instead of removing and inserting.
MoveItemSwapped(arr, from, to) ==
    IF from < Len(arr) /\ to < Len(arr)
    THEN [k \in 1 .. Len(arr) |->
            IF k = from + 1 THEN arr[to + 1]
            ELSE IF k = to + 1 THEN arr[from + 1] ELSE arr[k]]
    ELSE arr

\* arr.splice(to, 0, arr.splice(from, 1)[0])
MoveItem(arr, from, to) ==
    LET a == SpliceStart(from, Len(arr))
        removesOne == a < Len(arr)
        rest == IF removesOne THEN RemoveAt(arr, a + 1) ELSE arr
        item == IF removesOne THEN arr[a + 1] ELSE UndefinedItem
        b == SpliceStart(to, Len(rest))
    IN InsertAt(rest, b + 1, item)

\* ------------------------------------------------------------------- DOM
\* The children of a reorder container (.head data-grid-row, or .body) as
\* lit renders them: each item of the mapped array is a template whose
\* element e > 0 is preceded by a whitespace text node, written -e.
NoNode == 0
IsElement(n) == n > 0
Nodes(dom) == Range(dom)
ElementsOf(dom) == { n \in Nodes(dom) : IsElement(n) }
Position(dom, n) == CHOOSE p \in 1 .. Len(dom) : dom[p] = n
Without(dom, n) == IF n \in Nodes(dom) THEN RemoveAt(dom, Position(dom, n)) ELSE dom

\* Sortable's index(el): the element siblings before el; -1 without a parent
ElementIndex(dom, e) ==
    IF e \notin Nodes(dom) THEN -1
    ELSE Cardinality({ p \in 1 .. Position(dom, e) - 1 : IsElement(dom[p]) })

\* e.previousSibling: null for a first child
PreviousSibling(dom, e) ==
    IF e \notin Nodes(dom) \/ Position(dom, e) = 1 THEN NoNode
    ELSE dom[Position(dom, e) - 1]

\* An anchor.after(item) that left the item where the drag had put it.
NodeAfterLeavingItem(dom, anchor, item) == dom

\* anchor.after(item): nothing when the anchor has no parent
NodeAfter(dom, anchor, item) ==
    IF anchor \notin Nodes(dom) \/ anchor = item THEN dom
    ELSE LET d == Without(dom, item)
         IN InsertAt(d, Position(d, anchor) + 1, item)

\* lit's update of a mapped array of n items over the item parts `parts`:
\* the first n parts stay, the nodes from the first surplus part on are
\* removed, and a new part (text node, element) is appended per new item
RenderedParts(parts, n, fresh) ==
    [k \in 1 .. n |-> IF k <= Len(parts) THEN parts[k] ELSE fresh[k - Len(parts)]]

RECURSIVE AppendTemplates(_, _)
AppendTemplates(dom, fresh) ==
    IF fresh = <<>> THEN dom
    ELSE AppendTemplates(dom \o << -Head(fresh), Head(fresh) >>, Tail(fresh))

RenderedDom(dom, parts, n, fresh) ==
    LET kept == IF n < Len(parts) /\ -parts[n + 1] \in Nodes(dom)
                THEN SubSeq(dom, 1, Position(dom, -parts[n + 1]) - 1)
                ELSE dom
    IN AppendTemplates(kept, fresh)

\* the k smallest ids of `pool` not in `used`, ascending
RECURSIVE FreshIds(_, _, _)
FreshIds(pool, used, k) ==
    IF k <= 0 THEN <<>>
    ELSE LET e == CHOOSE x \in pool \ used : \A y \in pool \ used : x <= y
         IN <<e>> \o FreshIds(pool, used \cup {e}, k - 1)

\* ----------------------------------------------------------------- state
VARIABLES
    columns,              \* DataGrid.columns: column references, in order
    rows,                 \* DataGrid.rows: row references, in order
    gridTemplateColumns,  \* DataGrid.gridTemplateColumns (the widths)
    style,                \* the tokens of --grid-template-columns
    gridWidth,            \* the grid's rendered width, px
    reorderable,          \* DataGrid.reorderable
    isUpdatePending,      \* a refresh of the grid is scheduled
    changedColumns,       \* `columns` was assigned since the last refresh
    changedWidths,        \* `gridTemplateColumns` was assigned since then
    reorderableWas,       \* value of `reorderable` at its first assignment
                          \* since the last refresh, or "unchanged"
    handlerAwaiting,      \* handleSortableColumnChange is at its await
    sortableColumns,      \* DataGrid.sortableColumns: a coordinator id, 0: unset
    sortableRows,         \* DataGrid.sortableRows
    liveColumns,          \* column coordinators created and not destroyed
    liveRows,             \* row coordinators created and not destroyed
    colBefore,            \* DataGrid.colBefore: a node, 0: undefined or null
    rowBefore,            \* DataGrid.rowBefore
    colGesture,           \* the drag in progress in the head row, if any
    rowGesture,           \* the drag in progress in the body, if any
    colParts,             \* lit's item parts of the head row: element ids
    rowParts,             \* lit's item parts of the body: element ids
    headDom,              \* child nodes of .head data-grid-row, in order
    bodyDom,              \* child nodes of .body, in order
    els,                  \* the data-grid-column elements, by id
    sessions,             \* resize sessions holding document listeners
    lastDrop,             \* history: the drop not yet rendered, if any
    lastUp,               \* history: sessions the last pointerup released,
                          \* 0 once a pointerdown followed
    loose,                \* a data-grid-column element outside any grid
    cell,                 \* the last call of renderCell and its outcome
    connected             \* the grid is in the document

vars == << columns, rows, gridTemplateColumns, style, gridWidth, reorderable,
           isUpdatePending, changedColumns, changedWidths, reorderableWas,
           handlerAwaiting, sortableColumns, sortableRows, liveColumns, liveRows,
           colBefore, rowBefore, colGesture, rowGesture, colParts, rowParts,
           headDom, bodyDom, els, sessions, lastDrop, lastUp, loose, cell,
           connected >>

dataVars == << columns, rows >>
widthVars == << gridTemplateColumns, style >>
updateVars == << isUpdatePending, changedColumns, changedWidths, reorderableWas >>
sortableVars == << sortableColumns, sortableRows, liveColumns, liveRows >>
colDragVars == << colBefore, colGesture >>
rowDragVars == << rowBefore, rowGesture >>
domVars == << colParts, rowParts, headDom, bodyDom >>
resizeVars == << els, sessions >>
auxVars == << lastUp, loose, cell, connected >>

\* the standalone column element before any event, and no renderCell call yet
NoLoose == [width |-> Undefined, resizing |-> FALSE, listening |-> FALSE,
            startX |-> 0, startWidth |-> 0, warned |-> FALSE]
NoCell == [render |-> FALSE, kind |-> "none", renderer |-> FALSE, result |-> "none"]

NoDrop == [axis |-> "none", from |-> 0, to |-> 0, before |-> <<>>, after |-> <<>>,
           widths |-> <<>>, enabled |-> TRUE]

\* ids for the elements and coordinators that can exist at once
ColumnEls == 1 .. MoveLen + MaxSessions + 1
RowEls == 1 .. MaxRows + 2
SortableIds == 1 .. MaxSortables + 1

NoGesture == [active |-> FALSE, sortable |-> 0, item |-> 0, oldIndex |-> 0]
\* an id no element uses
FreeEl == [index |-> -1, width |-> Undefined, resizing |-> FALSE]

Abs(n) == IF n < 0 THEN -n ELSE n

\* the element ids something still refers to
InUse(parts, dom, gesture, before, sess) ==
    Range(parts) \cup { Abs(n) : n \in Nodes(dom) }
        \cup (IF gesture.active THEN { gesture.item } ELSE {})
        \cup (IF before # NoNode THEN { Abs(before) } ELSE {})
        \cup { sess[i].el : i \in 1 .. Len(sess) }

\* no refresh is scheduled and no handler is suspended: the state in which
\* the event loop delivers pointer and drag events
Stable == ~isUpdatePending /\ ~handlerAwaiting

Init ==
    /\ columns = <<>>
    /\ rows = <<>>
    /\ gridTemplateColumns = <<>>
    /\ style = <<>>
    /\ gridWidth \in GridWidths
    /\ reorderable = TRUE
    /\ isUpdatePending = TRUE
    /\ changedColumns = TRUE
    /\ changedWidths = TRUE
    /\ reorderableWas = "undefined"
    /\ handlerAwaiting = FALSE
    /\ sortableColumns = 0
    /\ sortableRows = 0
    /\ liveColumns = {}
    /\ liveRows = {}
    /\ colBefore = NoNode
    /\ rowBefore = NoNode
    /\ colGesture = NoGesture
    /\ rowGesture = NoGesture
    /\ colParts = <<>>
    /\ rowParts = <<>>
    /\ headDom = <<>>
    /\ bodyDom = <<>>
    /\ els = [e \in ColumnEls |-> FreeEl]
    /\ sessions = <<>>
    /\ lastDrop = NoDrop
    /\ lastUp = 0
    /\ loose = NoLoose
    /\ cell = NoCell
    /\ connected = TRUE

\* ------------------------------------------------ application and layout
\* grid.columns = arr
ReplaceColumns(arr) ==
    /\ columns' = arr
    /\ changedColumns' = TRUE
    /\ isUpdatePending' = TRUE
    /\ UNCHANGED << rows, widthVars, gridWidth, reorderable, changedWidths,
                    reorderableWas, handlerAwaiting, sortableVars, colDragVars,
                    rowDragVars, domVars, resizeVars, lastDrop, auxVars >>

\* grid.rows = arr
ReplaceRows(arr) ==
    /\ rows' = arr
    /\ isUpdatePending' = TRUE
    /\ UNCHANGED << columns, widthVars, gridWidth, reorderable, changedColumns,
                    changedWidths, reorderableWas, handlerAwaiting, sortableVars,
                    colDragVars, rowDragVars, domVars, resizeVars, lastDrop, auxVars >>

\* the layout gives the grid another width
Relayout(w) ==
    /\ Stable
    /\ w # gridWidth
    /\ gridWidth' = w
    /\ UNCHANGED << dataVars, widthVars, reorderable, updateVars, handlerAwaiting,
                    sortableVars, colDragVars, rowDragVars, domVars, resizeVars, lastDrop, auxVars >>

\* grid.reorderable = !grid.reorderable
ToggleReorderable ==
    /\ reorderable \/ Cardinality(liveColumns) < MaxSortables
    /\ reorderable' = ~reorderable
    /\ reorderableWas' = IF reorderableWas = "unchanged"
                         THEN (IF reorderable THEN "true" ELSE "false")
                         ELSE reorderableWas
    /\ isUpdatePending' = TRUE
    /\ UNCHANGED << dataVars, widthVars, gridWidth, changedColumns, changedWidths,
                    handlerAwaiting, sortableVars, colDragVars, rowDragVars,
                    domVars, resizeVars, lastDrop, auxVars >>

\* ------------------------------------------------------------ the refresh
\* firstUpdated of the new column elements `fresh`, rendered after the
\* `before` parts that stay: .index is the item's position, width is the
\* grid's slot at that index
CreatedEls(fresh, before, widths) ==
    [e \in ColumnEls |->
        IF \E k \in 1 .. Len(fresh) : fresh[k] = e
        THEN LET k == CHOOSE j \in 1 .. Len(fresh) : fresh[j] = e
             IN [index |-> before + k - 1,
                 width |-> ArrayGet(widths, before + k - 1),
                 resizing |-> FALSE]
        ELSE els[e]]

\* One refresh of the grid: the watchers of the changed properties
\* (handleColumnsChange, handleGridTemplateColumnsChange,
\* handleSortableColumnChange up to its await), then render, then the first
\* update of the column elements render created (firstUpdated sets width,
\* and handleWidthChange writes it back into a copy of the grid's array).
GridUpdate ==
    /\ isUpdatePending
    /\ ~handlerAwaiting
    /\ LET recompute == changedColumns /\ Len(gridTemplateColumns) # Len(columns)
           widths1 == IF recompute
                      THEN InitialWidths(columns, gridTemplateColumns, gridWidth)
                      ELSE gridTemplateColumns
           keptC == Min(Len(colParts), Len(columns))
           usedC == InUse(colParts, headDom, colGesture, colBefore, sessions)
           freshC == FreshIds(ColumnEls, usedC, Len(columns) - Len(colParts))
           usedR == InUse(rowParts, bodyDom, rowGesture, rowBefore, <<>>)
           freshR == FreshIds(RowEls, usedR, Len(rows) - Len(rowParts))
           newColParts == RenderedParts(colParts, Len(columns), freshC)
           newHead == RenderedDom(headDom, colParts, Len(columns), freshC)
           created == CreatedEls(freshC, keptC, widths1)
           wroteBack == \E k \in 1 .. Len(freshC) : IsNumber(created[freshC[k]].width)
           widths2 == IF wroteBack THEN ArraySpread(widths1) ELSE widths1
           stillUsed == InUse(newColParts, newHead, colGesture, colBefore, sessions)
       IN /\ Cardinality(ColumnEls \ usedC) >= Len(columns) - Len(colParts)
          /\ Cardinality(RowEls \ usedR) >= Len(rows) - Len(rowParts)
          /\ gridTemplateColumns' = widths2
          /\ style' = IF recompute \/ changedWidths \/ wroteBack
                      THEN StyleTokens(widths2) ELSE style
          /\ colParts' = newColParts
          /\ headDom' = newHead
          /\ rowParts' = RenderedParts(rowParts, Len(rows), freshR)
          /\ bodyDom' = RenderedDom(bodyDom, rowParts, Len(rows), freshR)
          /\ els' = [e \in ColumnEls |-> IF e \in stillUsed THEN created[e] ELSE FreeEl]
    /\ handlerAwaiting' = /\ reorderableWas # "unchanged"
                          /\ reorderableWas # (IF reorderable THEN "true" ELSE "false")
    /\ isUpdatePending' = FALSE
    /\ changedColumns' = FALSE
    /\ changedWidths' = FALSE
    /\ reorderableWas' = "unchanged"
    /\ lastDrop' = NoDrop
    /\ UNCHANGED auxVars
    /\ UNCHANGED << dataVars, gridWidth, reorderable, sortableVars, colDragVars,
                    rowDragVars, sessions >>

\* ------------------------------------------------- the reorder coordinators
FreshSortable(live, current) ==
    CHOOSE k \in SortableIds \ (live \cup {current}) :
        \A j \in SortableIds \ (live \cup {current}) : k <= j

\* a destroyed coordinator delivers no further event
GestureAfterDestroy(gesture, destroyed) ==
    IF gesture.active /\ gesture.sortable = destroyed THEN NoGesture ELSE gesture

\* handleSortableColumnChange from its await on: reorderable is read now
HandlerResume ==
    /\ handlerAwaiting
    /\ handlerAwaiting' = FALSE
    /\ IF ~reorderable
       THEN /\ liveColumns' = liveColumns \ {sortableColumns}
            /\ liveRows' = liveRows \ {sortableRows}
            /\ colGesture' = GestureAfterDestroy(colGesture, sortableColumns)
            /\ rowGesture' = GestureAfterDestroy(rowGesture, sortableRows)
            /\ UNCHANGED << sortableColumns, sortableRows >>
       ELSE /\ sortableColumns' = FreshSortable(liveColumns, sortableColumns)
            /\ sortableRows' = FreshSortable(liveRows, sortableRows)
            /\ liveColumns' = liveColumns \cup {sortableColumns'}
            /\ liveRows' = liveRows \cup {sortableRows'}
            /\ UNCHANGED << colGesture, rowGesture >>
    /\ UNCHANGED << dataVars, widthVars, gridWidth, reorderable, updateVars,
                    colBefore, rowBefore, domVars, resizeVars, lastDrop, auxVars >>

\* disconnectedCallback: the grid is removed from the document; the
\* coordinators the two fields refer to are destroyed
Disconnect ==
    /\ connected
    /\ connected' = FALSE
    /\ liveColumns' = liveColumns \ {sortableColumns}
    /\ liveRows' = liveRows \ {sortableRows}
    /\ colGesture' = GestureAfterDestroy(colGesture, sortableColumns)
    /\ rowGesture' = GestureAfterDestroy(rowGesture, sortableRows)
    /\ UNCHANGED << dataVars, widthVars, gridWidth, reorderable, updateVars,
                    handlerAwaiting, sortableColumns, sortableRows, colBefore,
                    rowBefore, domVars, resizeVars, lastDrop, lastUp, loose, cell >>

\* onStart of the column coordinator k for the dragged element `item`
ColumnsOnStart(k, item) ==
    /\ Stable
    /\ k \in liveColumns
    /\ ~colGesture.active
    /\ item \in ElementsOf(headDom)
    /\ colBefore' = PreviousSibling(headDom, item)
    /\ colGesture' = [active |-> TRUE, sortable |-> k, item |-> item,
                      oldIndex |-> ElementIndex(headDom, item)]
    /\ UNCHANGED << dataVars, widthVars, gridWidth, reorderable, updateVars,
                    handlerAwaiting, sortableVars, rowDragVars, domVars, resizeVars, lastDrop, auxVars >>

\* onStart of the column coordinator k delivered for `item` while the
\* gesture it started before has not ended: the callback has no test of its
\* own, it records the new item's previous sibling
ColumnsOnStartAgain(k, item) ==
    /\ Stable
    /\ k \in liveColumns
    /\ colGesture.active
    /\ item \in ElementsOf(headDom)
    /\ item # colGesture.item
    /\ colBefore' = PreviousSibling(headDom, item)
    /\ colGesture' = [active |-> TRUE, sortable |-> k, item |-> item,
                      oldIndex |-> ElementIndex(headDom, item)]
    /\ UNCHANGED << dataVars, widthVars, gridWidth, reorderable, updateVars,
                    handlerAwaiting, sortableVars, rowDragVars, domVars, resizeVars,
                    lastDrop, auxVars >>

\* The positions e.newIndex can report at the end of a gesture: any index
\* among the container's elements, or e.oldIndex when the dragged item has
\* no parent any more.
NewIndexes(dom, gesture) ==
    IF gesture.item \in Nodes(dom) THEN 0 .. Cardinality(ElementsOf(dom)) - 1
    ELSE { gesture.oldIndex }

\* The container as Sortable leaves it at the drop: the dragged item moved
\* to element index `to`.  (Sortable moves the item while it is dragged; the
\* model makes the move at the drop.)
RECURSIVE ElementPosition(_, _, _)
ElementPosition(dom, p, k) ==
    IF p > Len(dom) THEN p
    ELSE IF IsElement(dom[p]) THEN (IF k = 0 THEN p ELSE ElementPosition(dom, p + 1, k - 1))
    ELSE ElementPosition(dom, p + 1, k)

DroppedDom(dom, item, to) ==
    IF item \notin Nodes(dom) \/ ElementIndex(dom, item) = to THEN dom
    ELSE LET d == Without(dom, item)
             after == to > ElementIndex(dom, item)
             target == ElementPosition(d, 1, IF after THEN to - 1 ELSE to)
         IN InsertAt(d, IF after THEN target + 1 ELSE target, item)

\* A column drop that carried each width along with its column.
ColumnsOnEndMovingWidths(to) ==
    /\ Stable
    /\ colGesture.active
    /\ colGesture.sortable \in liveColumns
    /\ to \in NewIndexes(headDom, colGesture)
    /\ LET from == colGesture.oldIndex
           dropped == DroppedDom(headDom, colGesture.item, to)
       IN /\ headDom' = IF colBefore # NoNode
                        THEN NodeAfter(dropped, colBefore, colGesture.item)
                        ELSE dropped
          /\ columns' = MoveItem(columns, from, to)
          /\ gridTemplateColumns' =
                 IF from < Len(gridTemplateColumns) /\ to < Len(gridTemplateColumns)
                 THEN InsertAt(RemoveAt(gridTemplateColumns, from + 1), to + 1,
                               gridTemplateColumns[from + 1])
                 ELSE gridTemplateColumns
    /\ colBefore' = NoNode
    /\ colGesture' = NoGesture
    /\ isUpdatePending' = TRUE
    /\ changedWidths' = TRUE
    /\ lastDrop' = [axis |-> "columns", from |-> colGesture.oldIndex, to |-> to,
                    before |-> columns, after |-> columns',
                    widths |-> gridTemplateColumns,
                    enabled |-> reorderable]
    /\ UNCHANGED auxVars
    /\ els' = [e \in ColumnEls |->
                 IF e \in InUse(colParts, headDom', NoGesture, NoNode, sessions)
                 THEN els[e] ELSE FreeEl]
    /\ UNCHANGED << rows, style, gridWidth, reorderable, changedColumns,
                    reorderableWas, handlerAwaiting, sortableVars,
                    rowDragVars, colParts, rowParts, bodyDom, sessions >>

\* onEnd of the column coordinator, for e.oldIndex = from, e.newIndex = to
ColumnsOnEnd(to) ==
    /\ Stable
    /\ colGesture.active
    /\ colGesture.sortable \in liveColumns
    /\ to \in NewIndexes(headDom, colGesture)
    /\ LET from == colGesture.oldIndex
           dropped == DroppedDom(headDom, colGesture.item, to)
           moved == MoveItem(columns, from, to)
       IN /\ headDom' = IF colBefore # NoNode
                        THEN NodeAfter(dropped, colBefore, colGesture.item)
                        ELSE dropped
          /\ columns' = moved
    /\ colBefore' = NoNode
    /\ colGesture' = NoGesture
    /\ isUpdatePending' = TRUE
    /\ lastDrop' = [axis |-> "columns", from |-> colGesture.oldIndex, to |-> to,
                    before |-> columns, after |-> columns',
                    widths |-> gridTemplateColumns,
                    enabled |-> reorderable]
    /\ UNCHANGED auxVars
    /\ els' = [e \in ColumnEls |->
                 IF e \in InUse(colParts, headDom', NoGesture, NoNode, sessions)
                 THEN els[e] ELSE FreeEl]
    /\ UNCHANGED << rows, widthVars, gridWidth, reorderable, changedColumns,
                    changedWidths, reorderableWas, handlerAwaiting, sortableVars,
                    rowDragVars, colParts, rowParts, bodyDom, sessions >>

\* An onStart of the row coordinator that kept its anchor in the field of
\* the column coordinator.
RowsOnStartSharedAnchor(k, item) ==
    /\ Stable
    /\ k \in liveRows
    /\ ~rowGesture.active
    /\ item \in ElementsOf(bodyDom)
    /\ colBefore' = PreviousSibling(bodyDom, item)
    /\ rowGesture' = [active |-> TRUE, sortable |-> k, item |-> item,
                      oldIndex |-> ElementIndex(bodyDom, item)]
    /\ UNCHANGED << dataVars, widthVars, gridWidth, reorderable, updateVars,
                    handlerAwaiting, sortableVars, rowBefore, colGesture, domVars,
                    resizeVars, lastDrop, auxVars >>

\* onStart of the row coordinator k for the dragged row element `item`
RowsOnStart(k, item) ==
    /\ Stable
    /\ k \in liveRows
    /\ ~rowGesture.active
    /\ item \in ElementsOf(bodyDom)
    /\ rowBefore' = PreviousSibling(bodyDom, item)
    /\ rowGesture' = [active |-> TRUE, sortable |-> k, item |-> item,
                      oldIndex |-> ElementIndex(bodyDom, item)]
    /\ UNCHANGED << dataVars, widthVars, gridWidth, reorderable, updateVars,
                    handlerAwaiting, sortableVars, colDragVars, domVars, resizeVars, lastDrop, auxVars >>

\* An onEnd of the row coordinator that left its anchor recorded.
RowsOnEndKeepingAnchor(to) ==
    /\ Stable
    /\ rowGesture.active
    /\ rowGesture.sortable \in liveRows
    /\ to \in NewIndexes(bodyDom, rowGesture)
    /\ LET dropped == DroppedDom(bodyDom, rowGesture.item, to)
           moved == MoveItem(rows, rowGesture.oldIndex, to)
       IN /\ bodyDom' = IF rowBefore # NoNode
                        THEN NodeAfter(dropped, rowBefore, rowGesture.item)
                        ELSE dropped
          /\ rows' = moved
    /\ isUpdatePending' = TRUE
    /\ rowBefore' = rowBefore
    /\ rowGesture' = NoGesture
    /\ lastDrop' = [axis |-> "rows", from |-> rowGesture.oldIndex, to |-> to,
                    before |-> rows, after |-> rows',
                    widths |-> gridTemplateColumns,
                    enabled |-> reorderable]
    /\ UNCHANGED auxVars
    /\ UNCHANGED << columns, widthVars, gridWidth, reorderable, changedColumns,
                    changedWidths, reorderableWas, handlerAwaiting, sortableVars,
                    colDragVars, colParts, rowParts, headDom, resizeVars >>

\* onStart of the row coordinator k delivered for `item` while the gesture
\* it started before has not ended
RowsOnStartAgain(k, item) ==
    /\ Stable
    /\ k \in liveRows
    /\ rowGesture.active
    /\ item \in ElementsOf(bodyDom)
    /\ item # rowGesture.item
    /\ rowBefore' = PreviousSibling(bodyDom, item)
    /\ rowGesture' = [active |-> TRUE, sortable |-> k, item |-> item,
                      oldIndex |-> ElementIndex(bodyDom, item)]
    /\ UNCHANGED << dataVars, widthVars, gridWidth, reorderable, updateVars,
                    handlerAwaiting, sortableVars, colDragVars, domVars, resizeVars,
                    lastDrop, auxVars >>

\* onEnd of the row coordinator, for e.oldIndex = from, e.newIndex = to
RowsOnEnd(to) ==
    /\ Stable
    /\ rowGesture.active
    /\ rowGesture.sortable \in liveRows
    /\ to \in NewIndexes(bodyDom, rowGesture)
    /\ LET dropped == DroppedDom(bodyDom, rowGesture.item, to)
           moved == MoveItem(rows, rowGesture.oldIndex, to)
       IN /\ bodyDom' = IF rowBefore # NoNode
                        THEN NodeAfter(dropped, rowBefore, rowGesture.item)
                        ELSE dropped
          /\ rows' = moved
    /\ isUpdatePending' = TRUE
    /\ rowBefore' = NoNode
    /\ rowGesture' = NoGesture
    /\ lastDrop' = [axis |-> "rows", from |-> rowGesture.oldIndex, to |-> to,
                    before |-> rows, after |-> rows',
                    widths |-> gridTemplateColumns,
                    enabled |-> reorderable]
    /\ UNCHANGED auxVars
    /\ UNCHANGED << columns, widthVars, gridWidth, reorderable, changedColumns,
                    changedWidths, reorderableWas, handlerAwaiting, sortableVars,
                    colDragVars, colParts, rowParts, headDom, resizeVars >>

\* ------------------------------------------------------------ column resize
\* this.minWidth of a column element: the grid's template binds only .index,
\* so the property keeps its initial value, undefined (0 here)
ElementMinWidth(e) == 0

\* Math.max(this.minWidth || 60, startWidth + evt.clientX - startX)
ResizedPixels(e, session, clientX) ==
    Max(IF ElementMinWidth(e) # 0 THEN ElementMinWidth(e) ELSE FallbackMinWidth,
        session.startWidth + clientX - session.startX)

\* this.gridWidth of a column element: its grid is set, so the grid's width
ElementGridWidth(e) == gridWidth

\* onPointerMove of one session: this.width is assigned while _resizing
MovedWidth(e, session, clientX) ==
    pixelsToPercentOfWidth(ResizedPixels(e, session, clientX), ElementGridWidth(e))

\* the elements after every session's onPointerMove ran, in listener order
RECURSIVE AfterPointerMove(_, _, _)
AfterPointerMove(sess, clientX, elements) ==
    IF sess = <<>> THEN elements
    ELSE LET h == Head(sess)
             next == IF elements[h.el].resizing
                     THEN [elements EXCEPT ![h.el].width = MovedWidth(h.el, h, clientX)]
                     ELSE elements
         IN AfterPointerMove(Tail(sess), clientX, next)

\* handleWidthChange of the elements whose width changed, in the order their
\* updates were requested: each writes its slot into a copy of the grid's
\* array and assigns the copy
RECURSIVE AfterWidthChanges(_, _, _, _)
AfterWidthChanges(sess, widths, elements, done) ==
    IF sess = <<>> THEN widths
    ELSE LET e == Head(sess).el
         IN IF e \in done \/ elements[e].width = els[e].width
            THEN AfterWidthChanges(Tail(sess), widths, elements, done)
            ELSE AfterWidthChanges(Tail(sess),
                     ArraySet(ArraySpread(widths), elements[e].index, elements[e].width),
                     elements, done \cup {e})

\* pointerdown on the resize handle of column element e
ResizePointerDown(e, x, w) ==
    /\ Stable
    /\ Len(sessions) < MaxSessions
    /\ e \in ElementsOf(headDom)
    /\ sessions' = Append(sessions, [el |-> e, startX |-> x, startWidth |-> w])
    /\ els' = [els EXCEPT ![e].resizing = TRUE]
    /\ UNCHANGED << dataVars, widthVars, gridWidth, reorderable, updateVars,
                    handlerAwaiting, sortableVars, colDragVars, rowDragVars, domVars, lastDrop, loose, cell,
                    connected >>
    /\ lastUp' = 0

\* pointermove on the document, and the element updates it causes
PointerMove(x) ==
    /\ Stable
    /\ sessions # <<>>
    /\ els' = AfterPointerMove(sessions, x, els)
    /\ els' # els
    /\ gridTemplateColumns' = AfterWidthChanges(sessions, gridTemplateColumns, els', {})
    /\ changedWidths' = TRUE
    /\ isUpdatePending' = TRUE
    /\ UNCHANGED << dataVars, style, gridWidth, reorderable, changedColumns,
                    reorderableWas, handlerAwaiting, sortableVars, colDragVars,
                    rowDragVars, domVars, sessions, lastDrop, auxVars >>

\* A pointerup that ended only the session started first.
PointerUpFirstOnly ==
    /\ Stable
    /\ sessions # <<>>
    /\ els' = [e \in ColumnEls |->
                 IF sessions[1].el = e
                 THEN (IF e \in InUse(colParts, headDom, colGesture, colBefore, Tail(sessions))
                       THEN [els[e] EXCEPT !.resizing = FALSE] ELSE FreeEl)
                 ELSE els[e]]
    /\ sessions' = Tail(sessions)
    /\ lastUp' = Len(sessions)
    /\ UNCHANGED << dataVars, widthVars, gridWidth, reorderable, updateVars,
                    handlerAwaiting, sortableVars, colDragVars, rowDragVars, domVars,
                    lastDrop, loose, cell, connected >>

\* pointerup on the document: every session's onPointerUp
PointerUp ==
    /\ Stable
    /\ sessions # <<>>
    /\ els' = [e \in ColumnEls |->
                 IF \E i \in 1 .. Len(sessions) : sessions[i].el = e
                 THEN (IF e \in InUse(colParts, headDom, colGesture, colBefore, <<>>)
                       THEN [els[e] EXCEPT !.resizing = FALSE] ELSE FreeEl)
                 ELSE els[e]]
    /\ sessions' = <<>>
    /\ UNCHANGED << dataVars, widthVars, gridWidth, reorderable, updateVars,
                    handlerAwaiting, sortableVars, colDragVars, rowDragVars, domVars, lastDrop, loose, cell,
                    connected >>
    /\ lastUp' = Len(sessions)

\* ------------------------------------------- a column element without a grid
\* A data-grid-column that is not inside a data-grid: its context request
\* is not answered, so this.grid stays undefined.  firstUpdated then leaves
\* width undefined, and handleWidthChange writes no grid.

\* get gridWidth without a grid: console.warn(...), return 0
NoGridWidth == 0

\* pointerdown on the resize handle of the element
LoosePointerDown(x, w) ==
    /\ ~loose.listening
    /\ loose' = [loose EXCEPT !.resizing = TRUE, !.listening = TRUE,
                              !.startX = x, !.startWidth = w]
    /\ UNCHANGED << dataVars, widthVars, gridWidth, reorderable, updateVars,
                    handlerAwaiting, sortableVars, colDragVars, rowDragVars, domVars,
                    resizeVars, lastDrop, lastUp, cell, connected >>

\* A pointer move that read the width of a grid the element does not
\* belong to.
LoosePointerMoveReadingGrid(x) ==
    /\ loose.listening
    /\ loose' = IF loose.resizing
                THEN [loose EXCEPT
                        !.width = pixelsToPercentOfWidth(ResizedPixels(0, loose, x),
                                                         gridWidth)]
                ELSE loose
    /\ UNCHANGED << dataVars, widthVars, gridWidth, reorderable, updateVars,
                    handlerAwaiting, sortableVars, colDragVars, rowDragVars, domVars,
                    resizeVars, lastDrop, lastUp, cell, connected >>

\* pointermove on the document: onPointerMove of the element's session,
\* then its handleWidthChange, which finds no grid
LoosePointerMove(x) ==
    /\ loose.listening
    /\ loose' = IF loose.resizing
                THEN [loose EXCEPT
                        !.width = pixelsToPercentOfWidth(ResizedPixels(0, loose, x),
                                                         NoGridWidth),
                        !.warned = TRUE]
                ELSE loose
    /\ UNCHANGED << dataVars, widthVars, gridWidth, reorderable, updateVars,
                    handlerAwaiting, sortableVars, colDragVars, rowDragVars, domVars,
                    resizeVars, lastDrop, lastUp, cell, connected >>

\* pointerup on the document: onPointerUp of the element's session
LoosePointerUp ==
    /\ loose.listening
    /\ loose' = [loose EXCEPT !.resizing = FALSE, !.listening = FALSE]
    /\ UNCHANGED << dataVars, widthVars, gridWidth, reorderable, updateVars,
                    handlerAwaiting, sortableVars, colDragVars, rowDragVars, domVars,
                    resizeVars, lastDrop, lastUp, cell, connected >>

LooseResizing ==
    \/ \E x \in PointerDownXs, w \in OffsetWidths : LoosePointerDown(x, w)
    \/ \E x \in PointerMoveXs : LoosePointerMove(x)
    \/ LoosePointerUp

\* ------------------------------------------------------------ cell rendering
\* What a column's render callback may return, by the kind of the value:
\* an HTMLElement, a lit template result, a string, a function, null,
\* undefined, a number, an object that is none of these.
RenderReturns ==
    { "element", "markup", "string", "function", "null", "undefined", "number",
      "object" }

\* children._$litType$ : reading a property of null or undefined throws a
\* TypeError; only a template result has the property
LitTypeOf(kind) ==
    CASE kind \in { "null", "undefined" } -> "throws"
      [] kind = "markup" -> "truthy"
      [] OTHER -> "undefined"

\* renderCell(row, column, index): hasRender is column.render being set, kind
\* the kind of value it returned, hasRenderer is this.renderer being set.
\* The result names what the cell gets: the field value, the returned
\* children, unsafeCSS(children), the div given to the renderer, nothing, or
\* no content because the call threw.
renderCell(hasRender, kind, hasRenderer) ==
    IF hasRender
    THEN IF kind = "element" THEN "children"
         ELSE IF LitTypeOf(kind) = "throws" THEN "throws"
         ELSE IF LitTypeOf(kind) = "truthy" THEN "children"
         ELSE IF kind = "string" THEN "css"
         ELSE IF kind = "function" /\ hasRenderer THEN "div"
         ELSE "nothing"
    ELSE "field"

\* the grid renders a cell of one of its rows
RenderCell(hasRender, kind, hasRenderer) ==
    /\ columns # <<>>
    /\ rows # <<>>
    /\ cell' = [render |-> hasRender, kind |-> kind, renderer |-> hasRenderer,
                result |-> renderCell(hasRender, kind, hasRenderer)]
    /\ UNCHANGED << dataVars, widthVars, gridWidth, reorderable, updateVars,
                    handlerAwaiting, sortableVars, colDragVars, rowDragVars, domVars,
                    resizeVars, lastDrop, lastUp, loose, connected >>

CellRendering ==
    \E hasRender \in BOOLEAN, kind \in RenderReturns, hasRenderer \in BOOLEAN :
        RenderCell(hasRender, kind, hasRenderer)

\* ------------------------------------------------------------ specification
Replacements ==
    \/ \E arr \in ColumnArrays : ReplaceColumns(arr)
    \/ \E arr \in RowArrays : ReplaceRows(arr)

Refresh ==
    \/ GridUpdate
    \/ HandlerResume

Gestures ==
    \/ \E k \in SortableIds, item \in ColumnEls : ColumnsOnStart(k, item)
    \/ \E to \in 0 .. MoveLen : ColumnsOnEnd(to)
    \/ \E k \in SortableIds, item \in RowEls : RowsOnStart(k, item)
    \/ \E to \in 0 .. MaxRows + 1 : RowsOnEnd(to)

Resizing ==
    \/ \E e \in ColumnEls, x \in PointerDownXs, w \in OffsetWidths :
          ResizePointerDown(e, x, w)
    \/ \E x \in PointerMoveXs : PointerMove(x)
    \/ PointerUp

\* a gesture start delivered during a gesture of the same axis
Restarts ==
    \/ \E k \in SortableIds, item \in ColumnEls : ColumnsOnStartAgain(k, item)
    \/ \E k \in SortableIds, item \in RowEls : RowsOnStartAgain(k, item)

\* every operation of the grid
Next ==
    \/ Replacements
    \/ \E w \in GridWidths : Relayout(w)
    \/ ToggleReorderable
    \/ Disconnect
    \/ Refresh
    \/ Gestures
    \/ Resizing
    \/ LooseResizing
    \/ CellRendering

Spec == Init /\ [][Next]_vars

\* The operations are checked in groups whose state does not interact: the
\* widths under replacement and resize; the backing sequences under
\* replacement and drag gestures; the coordinators under reorderable
\* toggles; and single drops on sequences of every order.
\* one resize session at a time
NextResize ==
    \/ \E arr \in ColumnArrays : ReplaceColumns(arr)
    \/ Refresh
    \/ (sessions = <<>> /\ \E e \in ColumnEls, x \in PointerDownXs, w \in OffsetWidths :
                              ResizePointerDown(e, x, w))
    \/ \E x \in PointerMoveXs : PointerMove(x)
    \/ PointerUp

SpecResize == Init /\ [][NextResize]_vars

InitLaidOut == Init /\ gridWidth = 1000

NextReorder ==
    \/ \E arr \in ShortColumnArrays : ReplaceColumns(arr)
    \/ \E arr \in RowArrays : ReplaceRows(arr)
    \/ Refresh
    \/ Gestures

SpecReorder == InitLaidOut /\ [][NextReorder]_vars

NextToggle ==
    \/ (columns = <<>> /\ ReplaceColumns(<<1, 2>>))
    \/ (rows = <<>> /\ ReplaceRows(<<1, 2>>))
    \/ ToggleReorderable
    \/ Refresh
    \/ Gestures

SpecToggle == InitLaidOut /\ [][NextToggle]_vars

\* reorderable toggles and refreshes of a grid that is removed from the
\* document at any point
NextDisconnect ==
    \/ (columns = <<>> /\ \E arr \in ShortColumnArrays : ReplaceColumns(arr))
    \/ (rows = <<>> /\ \E arr \in RowArrays : ReplaceRows(arr))
    \/ ToggleReorderable
    \/ Refresh
    \/ Disconnect

SpecDisconnect == Init /\ [][NextDisconnect]_vars

NextMove ==
    \/ (columns = <<>> /\ \E arr \in MoveColumnArrays : ReplaceColumns(arr))
    \/ (rows = <<>> /\ \E arr \in MoveRowArrays : ReplaceRows(arr))
    \/ Refresh
    \/ Gestures

SpecMove == InitLaidOut /\ [][NextMove]_vars

\* gestures whose start may be delivered again before they end
NextRestart ==
    \/ (columns = <<>> /\ \E arr \in ShortColumnArrays : ReplaceColumns(arr))
    \/ (rows = <<>> /\ \E arr \in RowArrays : ReplaceRows(arr))
    \/ Refresh
    \/ Gestures
    \/ Restarts

SpecRestart == InitLaidOut /\ [][NextRestart]_vars

\* resize sessions that overlap, on two columns assigned once
NextSessions ==
    \/ (columns = <<>> /\ ReplaceColumns(<<1, 2>>))
    \/ Refresh
    \/ Resizing

SpecSessions == InitLaidOut /\ [][NextSessions]_vars

\* a column element outside any grid, next to a grid that is in use
NextLoose ==
    \/ \E arr \in ColumnArrays : ReplaceColumns(arr)
    \/ Refresh
    \/ LooseResizing

SpecLoose == Init /\ [][NextLoose]_vars

\* cells rendered for a grid whose columns and rows are being replaced
NextCells ==
    \/ Replacements
    \/ Refresh
    \/ CellRendering

SpecCells == Init /\ [][NextCells]_vars

\* ------------------------------------------------------------------ claims
\* The steps the claims speak of, told apart by what they change.
\* A drop: a gesture ended and its handler ran (no drop is pending before).
DropStep == lastDrop = NoDrop /\ lastDrop' # NoDrop
\* The refresh that renders a drop, with no replacement of columns between.
RenderOfDrop == lastDrop # NoDrop /\ lastDrop' = NoDrop /\ ~changedColumns
\* The refresh whose columns handler recomputes the widths.
RecomputeStep ==
    /\ isUpdatePending /\ ~handlerAwaiting /\ ~isUpdatePending'
    /\ changedColumns
    /\ Len(gridTemplateColumns) # Len(columns)
\* A pointermove that wrote a width: the only change of the widths in a
\* stable state.
ResizeWrite == Stable /\ sessions # <<>> /\ gridTemplateColumns' # gridTemplateColumns
\* slot i (from 1) is written by the step
SlotWritten(i) ==
    /\ i <= Len(gridTemplateColumns')
    /\ IsNumber(gridTemplateColumns'[i])
    /\ (i > Len(gridTemplateColumns) \/ gridTemplateColumns'[i] # gridTemplateColumns[i])
\* the sequence the last drop acted on, as the drop left it
DroppedSequence == lastDrop.after
Count(s, x) == Cardinality({ k \in 1 .. Len(s) : s[k] = x })

\* C1: in every stabilized state the widths have one slot per column,
\* whatever replacements, drops and resize events came before.
C1_WidthsMatchColumns ==
    Stable => Len(gridTemplateColumns) = Len(columns)

\* C2: every drop, on either axis, leaves a permutation of the sequence it
\* acted on: the same items with the same multiplicities, the same length.
C2_DropPermutes ==
    lastDrop.axis # "none" =>
        /\ Len(DroppedSequence) = Len(lastDrop.before)
        /\ \A x \in Range(lastDrop.before) \cup Range(DroppedSequence) :
              Count(DroppedSequence, x) = Count(lastDrop.before, x)

\* C3: a drop with in-range from and to removes the item at from and inserts
\* it at to: the item ends at index to and the others keep their order; on
\* [A,B,C,D] with from = 2, to = 0 that is [C,A,B,D], not the swap [C,B,A,D].
C3_DropMovesItem ==
    (/\ lastDrop.axis # "none"
     /\ lastDrop.from < Len(lastDrop.before)
     /\ lastDrop.to < Len(lastDrop.before)) =>
        /\ Len(DroppedSequence) = Len(lastDrop.before)
        /\ DroppedSequence[lastDrop.to + 1] = lastDrop.before[lastDrop.from + 1]
        /\ RemoveAt(DroppedSequence, lastDrop.to + 1)
             = RemoveAt(lastDrop.before, lastDrop.from + 1)
        /\ (lastDrop.before = <<1, 2, 3, 4>> /\ lastDrop.from = 2 /\ lastDrop.to = 0
              => DroppedSequence = <<3, 1, 2, 4>>)

C3_Witness ==
    /\ lastDrop.axis = "columns"
    /\ lastDrop.before = <<1, 2, 3, 4>>
    /\ lastDrop.from = 2
    /\ lastDrop.to = 0
    /\ lastDrop.after = <<3, 1, 2, 4>>
    /\ columns = <<3, 1, 2, 4>>

\* C4: a column or row drop never changes the widths: the drop leaves them
\* and their style as they were, and after the refresh that renders the drop
\* the widths have the same length and the same value in every slot.
C4_DropKeepsWidths ==
    [][/\ DropStep => /\ gridTemplateColumns' = gridTemplateColumns
                      /\ style' = style
       /\ RenderOfDrop => /\ gridTemplateColumns = lastDrop.widths
                          /\ Len(gridTemplateColumns') = Len(lastDrop.widths)
                          /\ \A i \in 1 .. Len(lastDrop.widths) :
                                gridTemplateColumns'[i] = lastDrop.widths[i]]_vars

\* two columns dropped into the other order and rendered: the widths stayed
\* with the positions
C4_Witness ==
    /\ Stable
    /\ columns = <<2, 1>>
    /\ gridTemplateColumns = << <<49, 1>>, <<20, 1>> >>

\* C5: every width a resize writes into slot i is the percent of a pixel
\* value at least the effective minimum of column i: columns[i].minWidth
\* when set, 60 otherwise.
C5_ResizeRespectsMinimum ==
    [][ResizeWrite =>
         \A i \in 1 .. Len(columns) :
            SlotWritten(i) =>
               Leq(pixelsToPercentOfWidth(
                      IF MinWidthOf(columns[i]) # 0 THEN MinWidthOf(columns[i]) ELSE 60,
                      gridWidth),
                   gridTemplateColumns'[i])]_vars

\* C6: a recompute keeps the prior width of every index that had one, for
\* every prior length (1 included) and every prior value (0 included).
C6_RecomputeKeepsPrior ==
    [][RecomputeStep =>
         \A i \in 1 .. Min(Len(gridTemplateColumns), Len(columns)) :
            IsNumber(gridTemplateColumns[i]) =>
               gridTemplateColumns'[i] = gridTemplateColumns[i]]_vars

\* C7: a recompute gives a slot without prior width (minWidth / grid width)
\* * 100 when its column has a minWidth, and 100 / N - 1 otherwise: three
\* columns without minWidth get 100/3 - 1 each, minWidth 200 in a grid
\* 1000 px wide gets 20.
C7_NewSlots ==
    [][RecomputeStep =>
         \A i \in 1 .. Len(columns) :
            ~(i <= Len(gridTemplateColumns) /\ IsNumber(gridTemplateColumns[i])) =>
               LET w == gridTemplateColumns'[i]
                   m == MinWidthOf(columns[i])
               IN /\ IsNumber(w)
                  /\ IF m = 0 THEN w[1] * Len(columns) = (100 - Len(columns)) * w[2]
                     ELSE IF gridWidth = 0 THEN w[1] = 0
                     ELSE w[1] * gridWidth = m * 100 * w[2]]_vars

C7_Witness ==
    /\ Stable
    /\ columns = <<1, 3, 4>>
    /\ gridTemplateColumns = << <<97, 3>>, <<97, 3>>, <<97, 3>> >>

\* C8: in every stabilized state the width of a column with a minWidth is at
\* least the percent that minWidth is of the current grid width.
C8_WidthsAtLeastMinimum ==
    Stable =>
        \A i \in 1 .. Len(columns) :
           MinWidthOf(columns[i]) # 0 =>
              /\ i <= Len(gridTemplateColumns)
              /\ IsNumber(gridTemplateColumns[i])
              /\ Leq(pixelsToPercentOfWidth(MinWidthOf(columns[i]), gridWidth),
                     gridTemplateColumns[i])

\* C9: a resize never writes into slot i a width above the percent that
\* columns[i].maxWidth is of the grid width.
C9_ResizeRespectsMaximum ==
    [][ResizeWrite =>
         \A i \in 1 .. Len(columns) :
            (SlotWritten(i) /\ MaxWidthOf(columns[i]) # 0) =>
               Leq(gridTemplateColumns'[i],
                   pixelsToPercentOfWidth(MaxWidthOf(columns[i]), gridWidth))]_vars

\* C10: once reorderable was set from true to false, no gesture that ends
\* afterwards changes columns or rows: both coordinators were torn down.
C10_NoDropOnceDisabled ==
    (lastDrop.axis # "none" /\ ~lastDrop.enabled) =>
        DroppedSequence = lastDrop.before

\* the anchor field of the axis the last drop acted on
DroppedAnchor == IF lastDrop.axis = "columns" THEN colBefore ELSE rowBefore

\* C11: a drop whose from or to index is outside 0 .. length - 1 is rejected:
\* the backing sequence keeps its elements, their order and its length.
C11_OutOfRangeDropRejected ==
    (/\ lastDrop.axis # "none"
     /\ \/ lastDrop.from \notin 0 .. Len(lastDrop.before) - 1
        \/ lastDrop.to \notin 0 .. Len(lastDrop.before) - 1) =>
        lastDrop.after = lastDrop.before

\* C12: a gesture that ends without a position change (from = to) leaves
\* the backing sequence as it was before and clears the anchor.
C12_UnmovedGestureChangesNothing ==
    (lastDrop.axis # "none" /\ lastDrop.from = lastDrop.to) =>
        /\ lastDrop.after = lastDrop.before
        /\ DroppedAnchor = NoNode

\* C13: a pointerup releases the listeners of every resize session open at
\* that time, however many there are and however they overlap, and sets
\* their columns back to not resizing; until a new session starts, no
\* pointer move changes a width.
C13_PointerUpReleasesAll ==
    /\ [](lastUp > 0 => /\ sessions = <<>>
                        /\ \A e \in ColumnEls : ~els[e].resizing)
    /\ [][(lastUp > 0 /\ Stable) => gridTemplateColumns' = gridTemplateColumns]_vars

\* two sessions were open at once, on both columns; pointer moves resized
\* both, and one pointerup released both
C13_Witness ==
    /\ lastUp = 2
    /\ sessions = <<>>
    /\ columns = <<1, 2>>
    /\ gridTemplateColumns = << <<10, 1>>, <<25, 1>> >>
    /\ \A e \in ColumnEls : ~els[e].resizing

\* C14: when the column of an open resize session has been removed from the
\* grid, the session's listeners are released with it: no later pointer
\* move writes to the grid's widths.
C14_RemovedColumnWritesNothing ==
    [][(/\ Stable
        /\ sessions # <<>>
        /\ \A i \in 1 .. Len(sessions) : sessions[i].el \notin ElementsOf(headDom))
         => gridTemplateColumns' = gridTemplateColumns]_vars

\* C15: a column without an enclosing grid: reading the grid width emits the
\* diagnostic and gives 0, a resize gives it the width 0 (never the percent
\* of another width), and none of its events writes any state of a grid.
C15_ColumnWithoutGrid ==
    /\ [](loose.width \in { Undefined, <<0, 1>> })
    /\ [](loose.width # Undefined => loose.warned)
    /\ [][loose' # loose =>
            UNCHANGED << dataVars, widthVars, gridWidth, updateVars, handlerAwaiting,
                         domVars, resizeVars >>]_vars

\* the element was resized next to a laid-out grid with two columns: its
\* width is 0, the diagnostic was emitted, the grid's widths are its own
C15_Witness ==
    /\ loose.width = <<0, 1>>
    /\ loose.warned
    /\ gridWidth = 1000
    /\ Stable
    /\ columns = <<1, 2>>
    /\ gridTemplateColumns = << <<49, 1>>, <<20, 1>> >>

\* C16: a render callback that returns something other than markup, a
\* string, an element, or a function while a renderer is supplied (null,
\* undefined, a number, a function without renderer, ...) gives a cell with
\* empty content, and rendering the cell does not throw.
C16_UnrecognizedRendersNothing ==
    (/\ cell.render
     /\ cell.kind \notin { "markup", "string", "element" }
     /\ ~(cell.kind = "function" /\ cell.renderer)) =>
        cell.result = "nothing"

\* C17: in every stabilized state the grid's --grid-template-columns is the
\* current widths written as percentage tokens, one token per column in
\* slot order: as many tokens as widths and as columns, each the percentage
\* of its slot.
C17_StyleIsWidthsAsPercentages ==
    Stable =>
        /\ Len(style) = Len(gridTemplateColumns)
        /\ Len(style) = Len(columns)
        /\ \A i \in 1 .. Len(style) :
              style[i] = [kind |-> "percent", value |-> gridTemplateColumns[i]]

\* C18: the two axes are independent: a step that starts or ends a column
\* gesture leaves the rows, the row anchor, the row gesture and the rendered
\* rows unchanged, and a step that starts or ends a row gesture leaves the
\* columns, the column anchor, the column gesture and the rendered header
\* unchanged, whatever the other axis is doing.
C18_AxesIndependent ==
    /\ [][colGesture'.active # colGesture.active =>
            UNCHANGED << rows, rowBefore, rowGesture, bodyDom >>]_vars
    /\ [][rowGesture'.active # rowGesture.active =>
            UNCHANGED << columns, colBefore, colGesture, headDom,
                         gridTemplateColumns >>]_vars

\* a column drop has moved a column while a row gesture was under way, and
\* the row gesture still has its anchor and the rows their order
C18_Witness ==
    /\ lastDrop.axis = "columns"
    /\ lastDrop.after # lastDrop.before
    /\ columns = lastDrop.after
    /\ rowGesture.active
    /\ rowBefore # NoNode
    /\ colBefore = NoNode
    /\ Len(rows) = 2

\* C19: on each axis a gesture goes Idle -> Dragging -> ended -> Idle: the
\* anchor is recorded only while Dragging (in Idle it is always unset), a
\* gesture starts only from Idle, and every gesture end, with or without a
\* change of position, clears the anchor, requests a re-render and returns
\* the axis to Idle.
C19_GesturePhases ==
    /\ [](/\ ~colGesture.active => colBefore = NoNode
          /\ ~rowGesture.active => rowBefore = NoNode)
    /\ [][/\ (colGesture.active /\ colGesture' # colGesture) =>
                (colGesture' = NoGesture /\ colBefore' = NoNode /\ isUpdatePending')
          /\ (rowGesture.active /\ rowGesture' # rowGesture) =>
                (rowGesture' = NoGesture /\ rowBefore' = NoNode /\ isUpdatePending')]_vars

\* a row gesture has just ended with a move: the axis is Idle again, its
\* anchor is unset and a re-render is pending
C19_Witness ==
    /\ lastDrop.axis = "rows"
    /\ lastDrop.from # lastDrop.to
    /\ lastDrop.after # lastDrop.before
    /\ rowGesture = NoGesture
    /\ rowBefore = NoNode
    /\ isUpdatePending

\* the elements of a container in document order
RECURSIVE ElementOrder(_)
ElementOrder(dom) ==
    IF dom = <<>> THEN <<>>
    ELSE (IF IsElement(Head(dom)) THEN << Head(dom) >> ELSE <<>>)
            \o ElementOrder(Tail(dom))

\* a drop step puts the dragged node back directly after the anchor its
\* gesture recorded, so that the container's elements are again in the order
\* of the item parts that render them
DropRestoresNode ==
    /\ (colGesture.active /\ colGesture' = NoGesture) =>
          /\ PreviousSibling(headDom', colGesture.item) = colBefore
          /\ ElementOrder(headDom') = colParts
    /\ (rowGesture.active /\ rowGesture' = NoGesture) =>
          /\ PreviousSibling(bodyDom', rowGesture.item) = rowBefore
          /\ ElementOrder(bodyDom') = rowParts

\* the same for a dragged node that a re-render has not removed from its
\* container during the gesture
DropRestoresRenderedNode ==
    /\ (colGesture.active /\ colGesture' = NoGesture
            /\ colGesture.item \in Nodes(headDom)) =>
          /\ PreviousSibling(headDom', colGesture.item) = colBefore
          /\ ElementOrder(headDom') = colParts
    /\ (rowGesture.active /\ rowGesture' = NoGesture
            /\ rowGesture.item \in Nodes(bodyDom)) =>
          /\ PreviousSibling(bodyDom', rowGesture.item) = rowBefore
          /\ ElementOrder(bodyDom') = rowParts

\* once re-rendered, with no gesture under way, the k-th element of the
\* header renders the k-th column and the k-th element of the body the k-th
\* row
RenderedInBackingOrder ==
    (Stable /\ ~colGesture.active /\ ~rowGesture.active) =>
        /\ ElementOrder(headDom) = colParts
        /\ Len(colParts) = Len(columns)
        /\ ElementOrder(bodyDom) = rowParts
        /\ Len(rowParts) = Len(rows)

C21_SecondStartRejected ==
    [][/\ (colGesture.active /\ colGesture'.active) =>
              (colGesture' = colGesture /\ colBefore' = colBefore)
       /\ (rowGesture.active /\ rowGesture'.active) =>
              (rowGesture' = rowGesture /\ rowBefore' = rowBefore)]_vars

\* C22: once the grid is disconnected no coordinator of the grid is live on
\* either axis, also when the disconnect came while the enable/disable
\* handler was at its await.
C22_NoCoordinatorAfterDisconnect ==
    ~connected => (liveColumns = {} /\ liveRows = {})

\* C23: under every sequence and interleaving of reorderable toggles each
\* axis has at most one live coordinator at any time.
C23_OneCoordinatorPerAxis ==
    /\ Cardinality(liveColumns) <= 1
    /\ Cardinality(liveRows) <= 1

====
